---- MODULE Spec2Model ----
(***************************************************************************)
(* Model of host/bbo_receiver.c: the receiver that reads 48-byte BBO       *)
(* packets from the XDMA C2H stream, decodes them through the packed       *)
(* BboPacket struct and prints them with latency and padding diagnostics.  *)
(*                                                                         *)
(* A byte is a number in 0..255 and a buffer is a sequence of bytes, so    *)
(* byte offset o of the C code is index o+1 here.  A uint32_t is kept as   *)
(* its two 16-bit halves [hi, lo] (value hi*65536 + lo), which keeps the   *)
(* full 32-bit width while every intermediate number stays small.          *)
(***************************************************************************)
EXTENDS Integers, Sequences, FiniteSets, TLC

(* ------------------------------------------------------------------ *)
(* Program constants                                                    *)
(* ------------------------------------------------------------------ *)

BBO_PACKET_SIZE == 48

DEBUG_BUFFER_SIZE == 4096

\* int count = 10;  (also the fallback when atoi(argv[1]) <= 0)
DefaultCount == 10

\* "1 cycle = 4 ns": the multiplier of latency_cycles
NsPerCycle == 4

\* hexdump prints 16 bytes per row
HexRow == 16

\* debug mode dumps at most the first 256 bytes read
DebugDumpMax == 256

(* ------------------------------------------------------------------ *)
(* Bounds of the model                                                  *)
(* ------------------------------------------------------------------ *)

\* argv[1] ranges over the numerals of -1..MaxArg (and a few non-numerals)
MaxArg == 2

(* ------------------------------------------------------------------ *)
(* uint32_t arithmetic on 16-bit halves                                 *)
(* ------------------------------------------------------------------ *)

\* 2^16: one half of a uint32_t
Half == 256 * 256

U32(h, l) == [hi |-> h, lo |-> l]

Zero32 == U32(0, 0)

\* 0xDEADBEEF
Sentinel == U32(57005, 48879)

\* a > b on uint32_t
Gt32(a, b) == a.hi > b.hi \/ (a.hi = b.hi /\ a.lo > b.lo)

\* a - b on uint32_t: the difference modulo 2^32
Sub32(a, b) ==
  LET borrow == IF a.lo < b.lo THEN 1 ELSE 0
  IN  U32((a.hi - b.hi - borrow + Half) % Half, (a.lo - b.lo + Half) % Half)

\* a * k on uint32_t (k small): the product modulo 2^32
Mul32(a, k) ==
  LET l == a.lo * k
  IN  U32((a.hi * k + l \div Half) % Half, l % Half)

(* ------------------------------------------------------------------ *)
(* The packed struct BboPacket overlaid on the read buffer              *)
(* ------------------------------------------------------------------ *)

\* members in declaration order
FieldOrder ==
  << "symbol", "bid_price", "bid_size", "ask_price", "ask_size", "spread",
     "ts_t1", "ts_t2", "ts_t3", "ts_t4", "padding" >>

\* sizeof each member: char[8] or uint32_t
FieldSize(f) == IF f = "symbol" THEN 8 ELSE 4

RECURSIVE SizeBefore(_)
\* bytes taken by the first k members
SizeBefore(k) == IF k = 0 THEN 0 ELSE SizeBefore(k - 1) + FieldSize(FieldOrder[k])

\* the layout under #pragma pack(push, 1): no padding between members, so each
\* member starts where the members before it end
StructLayout ==
  [ f \in { FieldOrder[k] : k \in 1..Len(FieldOrder) } |->
      SizeBefore((CHOOSE i \in 1..Len(FieldOrder) : FieldOrder[i] = f) - 1) ]

\* offsetof(BboPacket, f)
OffsetOf(f) == StructLayout[f]

\* variant: the 4 bytes taken high byte first
LoadU32_BigEndian(buf, off) ==
  U32(buf[off + 2] + 256 * buf[off + 1], buf[off + 4] + 256 * buf[off + 3])

\* the uint32_t a little-endian host loads from the 4 bytes at offset off
LoadU32(buf, off) ==
  U32(buf[off + 3] + 256 * buf[off + 4], buf[off + 1] + 256 * buf[off + 2])

\* the struct's members as seen through (BboPacket*)buf
Decode(buf) ==
  [ symbol    |-> SubSeq(buf, OffsetOf("symbol") + 1, OffsetOf("symbol") + 8),
    bid_price |-> LoadU32(buf, OffsetOf("bid_price")),
    bid_size  |-> LoadU32(buf, OffsetOf("bid_size")),
    ask_price |-> LoadU32(buf, OffsetOf("ask_price")),
    ask_size  |-> LoadU32(buf, OffsetOf("ask_size")),
    spread    |-> LoadU32(buf, OffsetOf("spread")),
    ts_t1     |-> LoadU32(buf, OffsetOf("ts_t1")),
    ts_t2     |-> LoadU32(buf, OffsetOf("ts_t2")),
    ts_t3     |-> LoadU32(buf, OffsetOf("ts_t3")),
    ts_t4     |-> LoadU32(buf, OffsetOf("ts_t4")),
    padding   |-> LoadU32(buf, OffsetOf("padding")) ]

(* ------------------------------------------------------------------ *)
(* The documented wire format (header comment)                          *)
(* ------------------------------------------------------------------ *)

\* "Bytes 0-7: Symbol", "Bytes 8-11: Bid Price", ... "Bytes 44-47: Padding"
DocOffset(f) ==
  CASE f = "symbol"    -> 0
    [] f = "bid_price" -> 8
    [] f = "bid_size"  -> 12
    [] f = "ask_price" -> 16
    [] f = "ask_size"  -> 20
    [] f = "spread"    -> 24
    [] f = "ts_t1"     -> 28
    [] f = "ts_t2"     -> 32
    [] f = "ts_t3"     -> 36
    [] f = "ts_t4"     -> 40
    [] f = "padding"   -> 44

\* the 4 wire bytes of a uint32, little-endian
Wire32(u) == << u.lo % 256, u.lo \div 256, u.hi % 256, u.hi \div 256 >>

\* the 48-byte frame that carries the fields of pkt at the documented offsets
Encode(pkt) ==
  [ i \in 1..BBO_PACKET_SIZE |->
      LET o == i - 1
          f == CHOOSE g \in { FieldOrder[k] : k \in 1..Len(FieldOrder) } :
                 DocOffset(g) <= o /\ o < DocOffset(g) + FieldSize(g)
      IN  IF f = "symbol" THEN pkt.symbol[o - DocOffset(f) + 1]
          ELSE Wire32(pkt[f])[o - DocOffset(f) + 1] ]

(* ------------------------------------------------------------------ *)
(* print_bbo                                                            *)
(* ------------------------------------------------------------------ *)

Space == 32

RECURSIVE CStr(_)
\* the characters of a NUL-terminated string: those before the first 0 byte
CStr(s) == IF s = << >> \/ Head(s) = 0 THEN << >> ELSE << Head(s) >> \o CStr(Tail(s))

\* variant: bytes outside 0x20..0x7E printed as '.', as the debug dump does
SymbolText_Sanitised(sym) ==
  LET s == CStr(sym \o << 0 >>)
  IN  [ i \in 1..8 |-> IF i > Len(s) THEN Space
                       ELSE IF s[i] >= 32 /\ s[i] < 127 THEN s[i] ELSE 46 ]

\* printf("%-8s", symbol) of the 9-byte copy symbol[9] = {0}: the bytes up to
\* the first NUL (there is always one at index 8), left-justified to width 8
SymbolText(sym) ==
  LET s == CStr(sym \o << 0 >>)
  IN  s \o [ i \in 1..(8 - Len(s)) |-> Space ]

\* variant: the ts_t1 != 0 test left out
LatencyValid_NoZeroCheck(pkt) == Gt32(pkt.ts_t4, pkt.ts_t1)

\* variant: any T4 other than T1 accepted, so that a wrapped counter passes
LatencyValid_WrapAware(pkt) == pkt.ts_t4 # pkt.ts_t1 /\ pkt.ts_t1 # Zero32

\* if (bbo->ts_t4 > bbo->ts_t1 && bbo->ts_t1 != 0)
LatencyValid(pkt) == Gt32(pkt.ts_t4, pkt.ts_t1) /\ pkt.ts_t1 # Zero32

\* uint32_t latency_cycles = bbo->ts_t4 - bbo->ts_t1;
LatencyCycles(pkt) == Sub32(pkt.ts_t4, pkt.ts_t1)

\* uint32_t latency_ns = latency_cycles * 4;
LatencyNs(pkt) == Mul32(LatencyCycles(pkt), NsPerCycle)

\* variant: the sentinel compared in the wrong byte order (0xEFBEADDE)
PaddingBad_Swapped(pkt) == pkt.padding # U32(61374, 44510)

\* if (bbo->padding != 0xDEADBEEF)
PaddingBad(pkt) == pkt.padding # Sentinel

\* what print_bbo(bbo, index) prints: the quote line, then the timestamp line
\* when the latency is valid, then one WARNING line when the padding is wrong
PrintBbo(pkt, index) ==
  [ kind      |-> "bbo",
    index     |-> index,
    symbol    |-> SymbolText(pkt.symbol),
    bid_price |-> pkt.bid_price,
    bid_size  |-> pkt.bid_size,
    ask_price |-> pkt.ask_price,
    ask_size  |-> pkt.ask_size,
    spread    |-> pkt.spread,
    latency   |-> IF LatencyValid(pkt)
                  THEN << [ T1 |-> pkt.ts_t1, T2 |-> pkt.ts_t2, T3 |-> pkt.ts_t3,
                            T4 |-> pkt.ts_t4, latency_ns |-> LatencyNs(pkt) ] >>
                  ELSE << >>,
    warnings  |-> IF PaddingBad(pkt)
                  THEN << [ type |-> "InvalidPadding", value |-> pkt.padding ] >>
                  ELSE << >> ]

(* ------------------------------------------------------------------ *)
(* hexdump                                                              *)
(* ------------------------------------------------------------------ *)

Dot == 46

\* char c = data[i + j]: the byte as a (signed) char
AsChar(b) == IF b >= 128 THEN b - 256 ELSE b

\* (c >= 32 && c < 127) ? c : '.'
Rendered(b) == LET c == AsChar(b) IN IF c >= 32 /\ c < 127 THEN c ELSE Dot

\* the rows hexdump(data, len) prints: offset, hex bytes, rendered characters
Hexdump(data, len) ==
  [ r \in 1..((len + HexRow - 1) \div HexRow) |->
      LET i == (r - 1) * HexRow
          n == IF len - i < HexRow THEN len - i ELSE HexRow
      IN  [ offset |-> i,
            hex    |-> SubSeq(data, i + 1, i + n),
            ascii  |-> [ j \in 1..n |-> Rendered(data[i + j]) ] ] ]

(* ------------------------------------------------------------------ *)
(* Argument parsing                                                     *)
(* ------------------------------------------------------------------ *)

Digits == << "0", "1", "2", "3", "4", "5", "6", "7", "8", "9" >>

IsDigit(c) == \E d \in 1..10 : Digits[d] = c

DigitVal(c) == (CHOOSE d \in 1..10 : Digits[d] = c) - 1

RECURSIVE AtoiDigits(_, _)
\* the value of the leading digits of s, continuing from acc
AtoiDigits(s, acc) ==
  IF s = << >> \/ ~IsDigit(Head(s)) THEN acc
  ELSE AtoiDigits(Tail(s), acc * 10 + DigitVal(Head(s)))

RECURSIVE Atoi(_)
\* atoi: skip leading blanks, take an optional sign, then the leading digits
Atoi(s) ==
  IF s = << >> THEN 0
  ELSE IF Head(s) = " " THEN Atoi(Tail(s))
  ELSE IF Head(s) = "-" THEN 0 - AtoiDigits(Tail(s), 0)
  ELSE IF Head(s) = "+" THEN AtoiDigits(Tail(s), 0)
  ELSE AtoiDigits(s, 0)

\* int count = 10; if (argc > 1) { count = atoi(argv[1]); if (count <= 0) count = 10; }
ParseCount(args) ==
  IF Len(args) > 0
  THEN LET c == Atoi(args[1]) IN IF c <= 0 THEN DefaultCount ELSE c
  ELSE DefaultCount

\* if (argc > 2 && strcmp(argv[2], "debug") == 0) debug_mode = 1;
ParseDebug(args) == Len(args) > 1 /\ args[2] = << "d", "e", "b", "u", "g" >>

(* ------------------------------------------------------------------ *)
(* The read loop                                                        *)
(* ------------------------------------------------------------------ *)

\* variant: the last byte transferred is not stored
ReadInto_OffByOne(buf, data) ==
  [ i \in 1..Len(buf) |-> IF i < Len(data) THEN data[i] ELSE buf[i] ]

\* ReadFile(hDevice, &bbo, ...) delivering data: the bytes land at the start
\* of the buffer, the rest of the buffer keeps what it held
ReadInto(buf, data) ==
  [ i \in 1..Len(buf) |-> IF i <= Len(data) THEN data[i] ELSE buf[i] ]

\* variant: while (received <= count)
LoopContinues_OffByOne(r, c) == r <= c

\* while (received < count)
LoopContinues(r, c) == r < c

\* variant: the partial-read test left out
IsPacket_NoPartialCheck(n) == ~(n = 0)

\* neither "bytesRead == 0" nor "bytesRead != BBO_PACKET_SIZE": the read is a packet
IsPacket(n) == ~(n = 0) /\ ~(n # BBO_PACKET_SIZE)

(* ------------------------------------------------------------------ *)
(* Inputs: command lines and what the C2H stream delivers               *)
(* ------------------------------------------------------------------ *)

\* the decimal numeral of n, for -9 <= n <= 99
Numeral(n) ==
  LET m  == IF n < 0 THEN 0 - n ELSE n
      ds == IF m >= 10 THEN << Digits[(m \div 10) + 1], Digits[(m % 10) + 1] >>
            ELSE << Digits[m + 1] >>
  IN  IF n < 0 THEN << "-" >> \o ds ELSE ds

DebugWord == << "d", "e", "b", "u", "g" >>

\* argv[1..]: no argument, a count, a count that is not a clean numeral,
\* and a count followed by a second argument
ArgLists ==
  { << >> }
    \cup { << Numeral(n) >> : n \in (0 - 1)..MaxArg }
    \cup { << << " ", "+", "2", "x" >> >> }
    \cup { << Numeral(2), DebugWord >>, << Numeral(1), << "x" >> >> }

\* a frame as the FPGA puts it on the wire
Frame(sym, bp, bs, ap, as, sp, t1, t2, t3, t4, pad) ==
  sym \o Wire32(bp) \o Wire32(bs) \o Wire32(ap) \o Wire32(as) \o Wire32(sp)
      \o Wire32(t1) \o Wire32(t2) \o Wire32(t3) \o Wire32(t4) \o Wire32(pad)

SymAAPL == << 65, 65, 80, 76, 0, 0, 0, 0 >>

SymMSFT == << 77, 83, 70, 84, 0, 0, 0, 0 >>

\* eight characters, no NUL inside the field
SymFull == << 84, 83, 76, 65, 46, 80, 82, 32 >>

\* holds bytes outside 0x20..0x7E: 0x01, 0x80, 0x7F
SymBad == << 71, 1, 128, 127, 0, 0, 0, 0 >>

\* a quote with all fields distinct, and the given timestamps and padding
Quote(sym, t1, t4, pad) ==
  Frame(sym, U32(258, 772), U32(0, 300), U32(258, 1029), U32(1, 44),
        U32(0, 257), t1, U32(4660, 22136), U32(0, 1050), t4, pad)

Frames ==
  { \* T1=1000, T4=1100: 100 cycles, 400 ns
    Quote(SymAAPL, U32(0, 1000), U32(0, 1100), Sentinel),
    \* the same quote with a wrong sentinel (byte-swapped)
    Quote(SymAAPL, U32(0, 1000), U32(0, 1100), U32(61374, 44510)),
    \* all zero except the sentinel
    Frame(<< 0, 0, 0, 0, 0, 0, 0, 0 >>, Zero32, Zero32, Zero32, Zero32, Zero32,
          Zero32, Zero32, Zero32, Zero32, Sentinel),
    \* T4 < T1, padding 0
    Quote(SymMSFT, U32(0, 100), U32(0, 50), Zero32),
    \* T1 == 0 with T4 > 0
    Quote(SymMSFT, Zero32, U32(0, 500), Sentinel),
    \* T1 == T4, not zero
    Quote(SymFull, U32(7, 7), U32(7, 7), Sentinel),
    \* 2^30 cycles: 4 * cycles is 2^32
    Quote(SymBad, U32(0, 1), U32(16384, 1), Sentinel),
    \* 2^30 - 1 cycles, with a borrow between the halves: 4 * cycles still fits
    Quote(SymFull, U32(1, 32768), U32(16385, 32767), Sentinel),
    \* the counter wrapped between T1 and T4: T1 = 0xFFFFFFF0, T4 = 0x10
    Quote(SymBad, U32(65535, 65520), U32(0, 16), U32(57005, 48878)) }

\* the byte counts of short reads
PartialLens == { 44, 47 }

\* the first n bytes of a frame
Prefix(f, n) == SubSeq(f, 1, n)

\* what the stack holds where bbo is allocated: anything
GarbageBuffers ==
  { [ i \in 1..BBO_PACKET_SIZE |-> 0 ], [ i \in 1..BBO_PACKET_SIZE |-> 204 ] }

(* ------------------------------------------------------------------ *)
(* State                                                                *)
(* ------------------------------------------------------------------ *)

VARIABLES
  pc,          \* where main is: "start", "read", "debug_read", "done", "exit1"
  args,        \* argv[1..]
  count,       \* int count
  debug_mode,  \* int debug_mode
  received,    \* int received
  bbo,         \* BboPacket bbo, as its 48 bytes
  bytesRead,   \* DWORD bytesRead
  delivered,   \* the bytes the last ReadFile call transferred
  report,      \* what the last step printed for its read
  summary,     \* the "Received %d BBO packets." line: << >> until printed
  afterShort   \* history: the read before the last one was a partial read

vars ==
  << pc, args, count, debug_mode, received, bbo, bytesRead, delivered, report,
     summary, afterShort >>

NoReport == [ kind |-> "none" ]

Init ==
  /\ pc = "start"
  /\ args \in ArgLists
  /\ count = DefaultCount
  /\ debug_mode = FALSE
  /\ received = 0
  /\ bbo \in GarbageBuffers
  /\ bytesRead = 0
  /\ delivered = << >>
  /\ report = NoReport
  /\ summary = << >>
  /\ afterShort = FALSE

\* main up to the first ReadFile: argument parsing, find_xdma_device, CreateFileA,
\* and in debug mode malloc
Start ==
  /\ pc = "start"
  /\ count' = ParseCount(args)
  /\ debug_mode' = ParseDebug(args)
  /\ \E num_devices \in 0..1, opened \in BOOLEAN, allocated \in BOOLEAN :
       IF num_devices = 0
       THEN /\ pc' = "exit1"
            /\ report' = [ kind |-> "error", what |-> "No XDMA devices found" ]
       ELSE IF ~opened
       THEN /\ pc' = "exit1"
            /\ report' = [ kind |-> "error", what |-> "Failed to open C2H device" ]
       ELSE IF debug_mode'
       THEN IF allocated
            THEN /\ pc' = "debug_read"
                 /\ report' = NoReport
            ELSE /\ pc' = "exit1"
                 /\ report' = [ kind |-> "error", what |-> "Failed to allocate debug buffer" ]
       ELSE /\ pc' = IF LoopContinues(received, count') THEN "read" ELSE "done"
            /\ report' = NoReport
  /\ summary' = IF pc' = "done" THEN << received >> ELSE << >>
  /\ UNCHANGED << args, received, bbo, bytesRead, delivered, afterShort >>

\* ReadFile fails: the error is printed and the loop is left.  Nothing reads
\* the buffer after that, so what a failed transfer may have left in it is
\* not modelled.
ReadError ==
  /\ pc = "read"
  /\ bytesRead' = 0
  /\ delivered' = << >>
  /\ report' = [ kind |-> "error", what |-> "ReadFile failed" ]
  /\ summary' = << received >>
  /\ pc' = "done"
  /\ afterShort' = (report.kind = "partial")
  /\ UNCHANGED << args, count, debug_mode, received, bbo >>

\* one iteration of the loop whose ReadFile succeeds and transfers data
\* (possibly no byte at all), up to the next ReadFile call or the end of main
Iteration(data) ==
  LET buf == ReadInto(bbo, data)
      n   == Len(data)
      got == IF IsPacket(n) THEN received + 1 ELSE received
  IN  /\ bytesRead' = n
      /\ delivered' = data
      /\ bbo' = buf
      /\ received' = got
      /\ report' = IF n = 0 THEN [ kind |-> "nodata" ]
                    ELSE IF ~IsPacket(n) THEN [ kind |-> "partial", bytes |-> n ]
                    ELSE PrintBbo(Decode(buf), got)
      /\ IF LoopContinues(got, count)
         THEN /\ pc' = "read"
              /\ summary' = << >>
         ELSE /\ pc' = "done"
              /\ summary' = << got >>
      /\ afterShort' = (report.kind = "partial")
      /\ UNCHANGED << args, count, debug_mode >>

\* ReadFile returns with bytesRead == 0
ReadZero ==
  /\ pc = "read"
  /\ Iteration(<< >>)

\* ReadFile returns fewer than 48 bytes
ReadPartial ==
  /\ pc = "read"
  /\ \E f \in Frames, n \in PartialLens : Iteration(Prefix(f, n))

\* ReadFile returns a whole 48-byte frame
ReadFull ==
  /\ pc = "read"
  /\ \E f \in Frames : Iteration(f)

\* debug mode: the single large read and its dump
DebugRead ==
  /\ pc = "debug_read"
  /\ \/ /\ bytesRead' = 0
        /\ delivered' = << >>
        /\ report' = [ kind |-> "error", what |-> "ReadFile failed" ]
     \/ \E f \in Frames, g \in Frames, n \in PartialLens \cup { 0 } :
          LET data == f \o Prefix(g, n)
              dumped == IF Len(data) > DebugDumpMax THEN DebugDumpMax ELSE Len(data)
          IN  /\ Len(data) <= DEBUG_BUFFER_SIZE
              /\ bytesRead' = Len(data)
              /\ delivered' = data
              /\ report' = [ kind |-> "dump", bytes |-> bytesRead',
                             rows |-> Hexdump(data, dumped),
                             more |-> IF bytesRead' > DebugDumpMax
                                      THEN << bytesRead' - DebugDumpMax >> ELSE << >> ]
     \/ /\ bytesRead' = 0
        /\ delivered' = << >>
        /\ report' = [ kind |-> "dump", bytes |-> 0, rows |-> << >>, more |-> << >> ]
  /\ pc' = "done"
  /\ UNCHANGED << args, count, debug_mode, received, bbo, summary, afterShort >>

Next == Start \/ ReadError \/ ReadZero \/ ReadPartial \/ ReadFull \/ DebugRead

Spec == Init /\ [][Next]_vars

\* main keeps running: a blocking ReadFile returns, and what follows it is
\* straight-line code up to the next ReadFile or the end of main
FairSpec == Spec /\ WF_vars(Next)

(* ------------------------------------------------------------------ *)
(* Vocabulary of the properties, read off the wire bytes                *)
(* ------------------------------------------------------------------ *)

\* the unsigned 32-bit number at the documented offset of field f, low byte first
DocU32(frame, f) ==
  LET o == DocOffset(f)
  IN  [ hi |-> frame[o + 3] + 256 * frame[o + 4],
        lo |-> frame[o + 1] + 256 * frame[o + 2] ]

\* a is the larger 32-bit number
Above(a, b) == a.hi > b.hi \/ (a.hi = b.hi /\ a.lo > b.lo)

\* c is exactly b - a, with a <= b: a + c = b without a carry out of 32 bits
ExactDifference(c, b, a) ==
  LET l == a.lo + c.lo
  IN  /\ l % Half = b.lo
      /\ a.hi + c.hi + (l \div Half) = b.hi

\* n is exactly k * c, not reduced: nothing is carried out of 32 bits
ExactProduct(n, c, k) ==
  LET l == c.lo * k
  IN  /\ l % Half = n.lo
      /\ c.hi * k + (l \div Half) = n.hi

\* k * c does not fit in 32 bits
ProductOverflows(c, k) == c.hi * k + ((c.lo * k) \div Half) >= Half

\* a byte that is neither zero nor printable ASCII
NonPrintable(b) == b # 0 /\ (b < 32 \/ b > 126)

\* a packet has just been decoded and printed
Reported == report.kind = "bbo"

\* the timestamps and the sentinel of the frame the last read delivered
WireT1 == DocU32(delivered, "ts_t1")

WireT4 == DocU32(delivered, "ts_t4")

WirePadding == DocU32(delivered, "padding")

\* the frame with its last four bytes set to EF BE AD DE
Resealed(frame) == SubSeq(frame, 1, 44) \o << 239, 190, 173, 222 >>

(* ------------------------------------------------------------------ *)
(* C1                                                                   *)
(* ------------------------------------------------------------------ *)

\* C1: a read whose length is not exactly 48 bytes (nothing, a partial frame,
\* or a failed read) is never decoded: the step reports no packet and leaves
\* the count of received packets as it was.
C1_ShortReadNotDecoded ==
  [][ (pc = "read" /\ bytesRead' # BBO_PACKET_SIZE)
        => (received' = received /\ report'.kind # "bbo") ]_vars

\* a 47-byte read was dropped after a packet had been received, and a
\* zero-length read is possible just the same
C1_Witness ==
  /\ report.kind = "partial"
  /\ bytesRead = 47
  /\ received = 1
  /\ pc = "read"

(* ------------------------------------------------------------------ *)
(* C2                                                                   *)
(* ------------------------------------------------------------------ *)

\* C2: for every decoded packet the latency line is printed if and only if
\* ts_t4 > ts_t1 and ts_t1 != 0; otherwise no latency value at all is printed.
C2_LatencyIff ==
  Reported =>
    /\ Len(delivered) = BBO_PACKET_SIZE
    /\ (report.latency # << >>) <=> (Above(WireT4, WireT1) /\ WireT1 # [ hi |-> 0, lo |-> 0 ])
    /\ Len(report.latency) <= 1

\* a packet with ts_t1 == 0 and ts_t4 > 0 was printed without a latency
C2_Witness ==
  /\ Reported
  /\ WireT1 = [ hi |-> 0, lo |-> 0 ]
  /\ Above(WireT4, WireT1)
  /\ report.latency = << >>

(* ------------------------------------------------------------------ *)
(* C3                                                                   *)
(* ------------------------------------------------------------------ *)

\* C3: whenever a latency is reported, the cycles are exactly ts_t4 - ts_t1
\* (no borrow) and the nanoseconds are exactly 4 times the cycles.
C3_NanosecondsExact ==
  (Reported /\ report.latency # << >>) =>
    LET cycles == LatencyCycles(Decode(bbo))
    IN  /\ ExactDifference(cycles, WireT4, WireT1)
        /\ ExactProduct(report.latency[1].latency_ns, cycles, NsPerCycle)

(* ------------------------------------------------------------------ *)
(* C4                                                                   *)
(* ------------------------------------------------------------------ *)

\* C4: when 4 * cycles does not fit in 32 bits, the packet is reported with a
\* LatencyOverflow warning and without a nanoseconds value reduced modulo 2^32.
C4_OverflowSurfaced ==
  ( /\ Reported
    /\ Above(WireT4, WireT1)
    /\ WireT1 # [ hi |-> 0, lo |-> 0 ]
    /\ ProductOverflows(LatencyCycles(Decode(bbo)), NsPerCycle) )
    => /\ \E k \in 1..Len(report.warnings) : report.warnings[k].type = "LatencyOverflow"
       /\ report.latency = << >>

(* ------------------------------------------------------------------ *)
(* C5                                                                   *)
(* ------------------------------------------------------------------ *)

\* C5: a decoded packet carries the invalid-padding warning, with the actual
\* value, if and only if its padding is not 0xDEADBEEF; the packet is counted
\* and everything else printed for it is what the same frame with a correct
\* sentinel would print.
C5_BadSentinelNonFatal ==
  Reported =>
    /\ Len(delivered) = BBO_PACKET_SIZE
    /\ report.warnings =
         IF WirePadding = [ hi |-> 57005, lo |-> 48879 ] THEN << >>
         ELSE << [ type |-> "InvalidPadding", value |-> WirePadding ] >>
    /\ report.index = received
    /\ [ report EXCEPT !.warnings = << >> ]
         = PrintBbo(Decode(Resealed(delivered)), received)

\* a packet with a wrong sentinel was printed with its latency and the warning
C5_Witness ==
  /\ Reported
  /\ WirePadding = [ hi |-> 61374, lo |-> 44510 ]
  /\ report.latency # << >>
  /\ Len(report.warnings) = 1

(* ------------------------------------------------------------------ *)
(* C6                                                                   *)
(* ------------------------------------------------------------------ *)

\* C6 as claimed: a decoded packet carries a NonPrintableSymbol warning if and
\* only if one of its 8 symbol bytes is neither zero nor in 0x20..0x7E.
C6_NonPrintableWarned ==
  Reported =>
    ( (\E i \in 1..8 : NonPrintable(delivered[i]))
        <=> \E k \in 1..Len(report.warnings) :
              report.warnings[k].type = "NonPrintableSymbol" )

\* C6 as the code has it: the symbol is never checked.  The only warning a
\* packet can carry is the invalid-padding one; the symbol is printed as its
\* raw bytes up to the first zero byte, blank-filled to 8 columns; and only the
\* debug dump replaces bytes, every byte outside 0x20..0x7E (zero too) by '.'.
C6_SymbolUnchecked ==
  /\ Reported =>
       /\ \A k \in 1..Len(report.warnings) : report.warnings[k].type = "InvalidPadding"
       /\ Len(report.symbol) = 8
       /\ \A i \in 1..8 :
            report.symbol[i] =
              IF \A j \in 1..i : delivered[j] # 0 THEN delivered[i] ELSE 32
  /\ report.kind = "dump" =>
       \A r \in 1..Len(report.rows) :
         \A j \in 1..Len(report.rows[r].hex) :
           LET b == report.rows[r].hex[j]
           IN  /\ b = delivered[report.rows[r].offset + j]
               /\ report.rows[r].ascii[j] = IF b >= 32 /\ b <= 126 THEN b ELSE 46

\* a packet whose symbol holds non-printable bytes was printed with them and
\* without any warning
C6_Witness ==
  /\ Reported
  /\ \E i \in 1..8 : NonPrintable(delivered[i]) /\ report.symbol[i] = delivered[i]
  /\ report.warnings = << >>

(* ------------------------------------------------------------------ *)
(* C7                                                                   *)
(* ------------------------------------------------------------------ *)

\* C7 as claimed: when ts_t4 < ts_t1 (the counter wrapped) and ts_t1 != 0, the
\* latency is still computed.
C7_WrapStillComputed ==
  (Reported /\ Above(WireT1, WireT4) /\ WireT1 # [ hi |-> 0, lo |-> 0 ])
    => report.latency # << >>

\* C7 as the code has it: when ts_t4 < ts_t1 no latency is computed, so the
\* subtraction that is performed never borrows.
C7_WrapUnavailable ==
  /\ (Reported /\ Above(WireT1, WireT4)) => report.latency = << >>
  /\ (Reported /\ report.latency # << >>) =>
       ExactDifference(LatencyCycles(Decode(bbo)), WireT4, WireT1)

\* a packet with ts_t1 = 0xFFFFFFF0 and ts_t4 = 0x10 was printed without latency
C7_Witness ==
  /\ Reported
  /\ WireT1 = [ hi |-> 65535, lo |-> 65520 ]
  /\ WireT4 = [ hi |-> 0, lo |-> 16 ]
  /\ report.latency = << >>

(* ------------------------------------------------------------------ *)
(* C8                                                                   *)
(* ------------------------------------------------------------------ *)

\* the buffer with byte i changed
Flipped(buf, i) == [ buf EXCEPT ![i] = (buf[i] + 1) % 256 ]

\* the members on which two decoded packets differ
Differing(p, q) == { f \in DOMAIN p : p[f] # q[f] }

\* C8: decoding is a bijection between 48-byte buffers and field tuples: the
\* symbol is bytes 0-7 and every other member is the little-endian number at
\* its documented offset, so encoding the members at the documented offsets
\* gives the buffer back and decoding that gives the members back; and each
\* byte of the buffer decides exactly one member.
C8_CodecBijection ==
  LET pkt == Decode(bbo)
  IN  /\ Encode(pkt) = bbo
      /\ Decode(Encode(pkt)) = pkt
      /\ pkt.symbol = SubSeq(bbo, 1, 8)
      /\ \A k \in 2..Len(FieldOrder) : pkt[FieldOrder[k]] = DocU32(bbo, FieldOrder[k])
      /\ Reported =>
           \A i \in 1..BBO_PACKET_SIZE :
             Cardinality(Differing(Decode(Flipped(bbo, i)), pkt)) = 1

\* a packet whose bid price 0x01020304 sits on the wire as 04 03 02 01 was decoded
C8_Witness ==
  /\ Reported
  /\ SubSeq(bbo, 9, 12) = << 4, 3, 2, 1 >>
  /\ report.bid_price = [ hi |-> 258, lo |-> 772 ]

(* ------------------------------------------------------------------ *)
(* C9                                                                   *)
(* ------------------------------------------------------------------ *)

\* C9: a reported packet is exactly the 48 bytes of the read just before it:
\* the buffer holds those bytes and nothing of what earlier reads left, and
\* what is printed is what those bytes alone decode to.
C9_OnlyLastRead ==
  Reported =>
    /\ Len(delivered) = BBO_PACKET_SIZE
    /\ bbo = delivered
    /\ report = PrintBbo(Decode(delivered), received)

\* a packet was reported right after a partial read had overwritten part of
\* the buffer
C9_Witness ==
  /\ Reported
  /\ afterShort
  /\ received >= 2

(* ------------------------------------------------------------------ *)
(* C10                                                                  *)
(* ------------------------------------------------------------------ *)

\* the count the command line asks for
WantedCount ==
  IF \E n \in 1..MaxArg : Len(args) > 0 /\ args[1] = Numeral(n)
  THEN CHOOSE n \in 1..MaxArg : args[1] = Numeral(n)
  ELSE IF args = << >> \/ args[1] \in { Numeral(0), Numeral(0 - 1) }
  THEN DefaultCount
  ELSE count

\* the stream keeps delivering whole frames: as long as main is in the loop,
\* a read of 48 bytes comes again and again
KeepsDelivering == []<>(pc # "read" \/ bytesRead = BBO_PACKET_SIZE)

\* C10: in normal mode, with the stream delivering whole frames again and
\* again, main ends; it ends with exactly count packets (the first argument if
\* positive, else 10) unless a read failed; packets are numbered 1, 2, ... in
\* order; a failed read ends the loop at once; an empty or partial read is
\* followed by another read, every time.
C10_Loop ==
  /\ KeepsDelivering => <>(pc \in { "done", "exit1" })
  /\ [](pc \in { "read", "done" } => count = WantedCount /\ received <= count)
  /\ []( (pc = "done" /\ ~debug_mode)
           => /\ summary = << received >>
              /\ received = count \/ report.kind = "error" )
  /\ [][ pc = "read" =>
           /\ report'.kind = "bbo"
                => (received' = received + 1 /\ report'.index = received')
           /\ report'.kind \in { "nodata", "partial" }
                => (received' = received /\ pc' = "read")
           /\ report'.kind = "error"
                => (received' = received /\ pc' = "done")
           /\ pc' = "read" <=> (report'.kind # "error" /\ received' < count) ]_vars

\* main ended after the default 10 packets, the last one right after a
\* partial read
C10_Witness ==
  /\ pc = "done"
  /\ args = << >>
  /\ received = DefaultCount
  /\ Reported
  /\ report.index = DefaultCount
  /\ afterShort

====
